---- MODULE Spec2Model ----
(***************************************************************************)
(* The dual-mode tick streaming engine of backend/mt5_bridge_server_v6.py: *)
(* WebSocketManager (subscriber list, mode, symbol, live-adapter handle),  *)
(* the MT5Connector listen task, the simulate task and the request         *)
(* handlers, under asyncio's single cooperative scheduler.  A step of the  *)
(* model is the code a task or handler runs between two suspension points. *)
(***************************************************************************)
EXTENDS Integers, Sequences, FiniteSets, TLC

\* Bounds of the model.
NumClients == 2
MaxAdapters == 2
MaxPrice == 3
MaxTime == 2
MaxQuotePrice == 2
MaxTicks == 3
\* Longest raw batch the feed source hands to get_history.
MaxBatch == 3
\* Longest subscriber list when connect is called on any handle.
MaxRegistered == 4

Clients == 1..NumClients
AdapterIds == 1..MaxAdapters

\* Symbols as they arrive in requests, and str.upper() on them.
RawSymbols == {"EURUSD", "xauusd"}
Upper(s) == IF s = "xauusd" THEN "XAUUSD" ELSE s

VARIABLES
    phase,        \* "init" | "running" | "shutdown" (lifespan)
    mode,         \* manager.mode
    symbol,       \* manager.symbol
    mt5,          \* manager.mt5: index into ads, 0 for None
    mt5_task,     \* manager.mt5_task: index of the adapter whose listen task it is, 0 for None
    ads,          \* every MT5Connector object created so far, with its listen task
    feedUp,       \* the MetaTrader5 library holds a terminal connection
    connections,  \* manager.connections (a list)
    sock,         \* each client's transport: "new" | "open" | "stalled" | "closed" | "gone"
    sim,          \* the simulate task: pc "new" | "sleep" | "send" | "done", cancel, frame
    ev,           \* what the last step did (returned by a handler, or done by a send)
    vc,           \* a VolumeCalculator: its last_bid, last_mid and _initialized dicts
    lst,          \* a listen loop seen at the level of quotes: last_time, tick_count
    hist,         \* the last get_history call: what the feed gave it and what it returned
    since         \* since the last switch_symbol: no tick emitted yet for the active symbol
                  \* (fresh), old-symbol ticks delivered to each client (stale, up to 2);
                  \* had: manager.vc held an observation of the symbol when switched to

vars == <<phase, mode, symbol, mt5, mt5_task, ads, feedUp, connections, sock, sim, ev,
          vc, lst, hist, since>>

\* The variables of the quote-level specifications (CalcSpec, ListenSpec, HistSpec);
\* the task-level actions of Spec leave them alone.
quoteVars == <<vc, lst, hist>>
\* With the record of what happened since the last switch_symbol.
synthVars == <<vc, lst, hist, since>>
\* The variables of the task-level specification, apart from ev.
taskVars == <<phase, mode, symbol, mt5, mt5_task, ads, feedUp, connections, sock, sim>>

NoEv == [kind |-> "none"]

(***************************************************************************)
(* Symbol profiles and VolumeCalculator.  Numbers are integers: a price is *)
(* counted in points (10^-dig of its symbol), a mid price and a price      *)
(* change are kept doubled (mid2 = bid + ask) so that halves of a point    *)
(* stay exact, and a volume is counted in 1/VolUnit.  random.random() is   *)
(* an input.                                                               *)
(***************************************************************************)
\* Symbols as calc and reset receive them: one of the registry, and the empty string
\* (what a switch_symbol command with an empty symbol field sets), which is not.
Symbols == {"XAUUSD", ""}
\* reset() called without a symbol.
None == "(None)"
\* Bid and ask prices, in points.
Prices == 1..MaxPrice

\* Two entries of the registry (the other six differ in their numbers only).
SYM_CFG ==
    [EURUSD |-> [mult |-> 100000, bv |-> 5, dig |-> 5],
     XAUUSD |-> [mult |-> 50, bv |-> 10, dig |-> 2]]
DefaultCfg == [mult |-> 1000, bv |-> 5, dig |-> 5]
gcfg(sym) ==
    IF Upper(sym) \in DOMAIN SYM_CFG THEN SYM_CFG[Upper(sym)] ELSE DefaultCfg

\* gcfg letter by letter.  A symbol string is a sequence of characters; str.upper()
\* maps each lower-case letter to its capital and leaves every other character.
LowerCase == <<"a", "d", "e", "r", "s", "u", "x", "z">>
UpperCase == <<"A", "D", "E", "R", "S", "U", "X", "Z">>
upperChar(ch) ==
    IF \E i \in DOMAIN LowerCase : LowerCase[i] = ch
    THEN UpperCase[CHOOSE i \in DOMAIN LowerCase : LowerCase[i] = ch]
    ELSE ch
upper(s) == [i \in 1..Len(s) |-> upperChar(s[i])]

\* How the keys of SYM_CFG are spelt.
Spelling ==
    [EURUSD |-> <<"E", "U", "R", "U", "S", "D">>,
     XAUUSD |-> <<"X", "A", "U", "U", "S", "D">>]

\* SYM_CFG.get(symbol, default) with no upper().
lookupCaseSensitive(s) ==
    IF \E n \in DOMAIN SYM_CFG : Spelling[n] = s
    THEN SYM_CFG[CHOOSE n \in DOMAIN SYM_CFG : Spelling[n] = s]
    ELSE DefaultCfg

\* gcfg(symbol): SYM_CFG.get(symbol.upper(), default).
lookup(s) ==
    LET k == upper(s)
    IN IF \E n \in DOMAIN SYM_CFG : Spelling[n] = k
       THEN SYM_CFG[CHOOSE n \in DOMAIN SYM_CFG : Spelling[n] = k]
       ELSE DefaultCfg

Abs(x) == IF x < 0 THEN -x ELSE x
Max(a, b) == IF a >= b THEN a ELSE b

\* round(n / d) as Python rounds: to the nearest, a tie to the even neighbour.
Round(n, d) ==
    LET q == n \div d
        r == n % d
    IN IF 2 * r > d \/ (2 * r = d /\ q % 2 = 1) THEN q + 1 ELSE q

\* Volumes: (|pc2| * mult / (2 * 10^dig) + bv) * (jitter / 100) * (burst / 10).
VolUnit == 200 * 100 * 10
\* bv in volume units.
BaseVol(cfg) == cfg.bv * VolUnit

\* The factors random.random() yields, at the two ends of their ranges: the warm-up
\* factor 0.8 + random() * 0.4 and the jitter 0.7 + random() * 0.6 in hundredths, the
\* burst factor in tenths (10 when random() <= 0.97, else 3 + random() * 5), the coin.
Warmups == {80, 119}
Jitters == {70, 129}
Bursts == {10, 30}
Coins == {"buy", "sell"}
\* The draws a calc call consumes: in its first-observation branch, when
\* bid_change = 0, and otherwise.  A draw it does not make is no input and is held at
\* a fixed value.
DrawsFirst == [w : Warmups, j : {100}, b : {10}, coin : Coins]
DrawsTie == [w : {100}, j : Jitters, b : Bursts, coin : Coins]
DrawsMove == [w : {100}, j : Jitters, b : Bursts, coin : {"buy"}]
DrawsFor(c, sym, bid) ==
    IF sym \notin DOMAIN c.initialized THEN DrawsFirst
    ELSE IF c.last_bid[sym] = bid THEN DrawsTie
    ELSE DrawsMove

\* Python dicts as functions: d[k] = v, d.pop(k, None), {}.
Empty == [k \in {} |-> 0]
Put(d, k, v) == [x \in DOMAIN d \cup {k} |-> IF x = k THEN v ELSE d[x]]
Pop(d, k) == [x \in DOMAIN d \ {k} |-> d[x]]

\* VolumeCalculator.__init__
NewVC == [last_bid |-> Empty, last_mid |-> Empty, initialized |-> Empty]

Remember(c, sym, bid, mid2) ==
    [last_bid |-> Put(c.last_bid, sym, bid),
     last_mid |-> Put(c.last_mid, sym, mid2),
     initialized |-> Put(c.initialized, sym, TRUE)]

\* The first observation of a symbol: bv * (0.8 + random() * 0.4), no price change.
FirstVolume(cfg, d) == cfg.bv * d.w * (VolUnit \div 100)

\* The volume without the floor max(vol, bv).
VolumeNoFloor(cfg, pc2, d) ==
    (Abs(pc2) * ((cfg.mult * 100) \div (10 ^ cfg.dig)) + 200 * cfg.bv) * d.j * d.b

\* The volume with the floor taken before the jitter.
VolumeFloorFirst(cfg, pc2, d) ==
    LET v0 == Abs(pc2) * ((cfg.mult * 100) \div (10 ^ cfg.dig)) + 200 * cfg.bv
    IN Max(v0, cfg.bv * 200) * d.j * d.b

\* vol = abs(price_change) * mult + bv; vol *= jitter; vol = max(vol, bv); the burst.
Volume(cfg, pc2, d) ==
    LET v0 == Abs(pc2) * ((cfg.mult * 100) \div (10 ^ cfg.dig)) + 200 * cfg.bv
        v1 == Max(v0 * d.j, cfg.bv * 200 * 100)
    IN v1 * d.b

\* The side with the two comparisons exchanged.
SideSwapped(bid_change, d) ==
    IF bid_change < 0 THEN "buy" ELSE IF bid_change > 0 THEN "sell" ELSE d.coin

Side(bid_change, d) ==
    IF bid_change > 0 THEN "buy" ELSE IF bid_change < 0 THEN "sell" ELSE d.coin

\* VolumeCalculator.calc(sym, bid, ask) on the calculator c with the draws d: the
\* calculator after it, whether it took the first-observation branch, and what it
\* returns.
calc(c, sym, bid, ask, d) ==
    LET cfg == gcfg(sym)
        mid2 == bid + ask
    IN IF sym \notin DOMAIN c.initialized
       THEN [vc |-> Remember(c, sym, bid, mid2), first |-> TRUE,
             ret |-> [mid2 |-> mid2, vol |-> FirstVolume(cfg, d),
                      price_change2 |-> 0, side |-> d.coin]]
       ELSE LET pc2 == mid2 - c.last_mid[sym]
            IN [vc |-> Remember(c, sym, bid, mid2), first |-> FALSE,
                ret |-> [mid2 |-> mid2, vol |-> Volume(cfg, pc2, d),
                         price_change2 |-> pc2,
                         side |-> Side(bid - c.last_bid[sym], d)]]

\* reset popping the symbol from last_bid only.
resetBidOnly(c, sym) ==
    IF sym # None /\ sym # ""
    THEN [c EXCEPT !.last_bid = Pop(@, sym)]
    ELSE NewVC

\* reset popping nothing for a named symbol.
resetKeeps(c, sym) ==
    IF sym # None /\ sym # "" THEN c ELSE NewVC

\* VolumeCalculator.reset(sym): `if symbol:` is false for None and for "".
reset(c, sym) ==
    IF sym # None /\ sym # ""
    THEN [last_bid |-> Pop(c.last_bid, sym),
          last_mid |-> Pop(c.last_mid, sym),
          initialized |-> Pop(c.initialized, sym)]
    ELSE NewVC

\* TickData(...) as simulate, listen and get_history build it from calc's result:
\* round(mid, dig), round(vol, 2) (in hundredths), round(pc, dig).
TickData(sym, ret, bid, ask, src) ==
    [symbol |-> sym, price |-> Round(ret.mid2, 2), bid |-> bid, ask |-> ask,
     volume_synthetic |-> Round(ret.vol, VolUnit \div 100), side |-> ret.side,
     price_change |-> Round(ret.price_change2, 2), source |-> src]

(***************************************************************************)
(* MT5Connector.get_history: the raw batch and its replay.                 *)
(***************************************************************************)
\* A field value on which float() or int() raises.
Unparsable == -1
\* Arrival times of raw records, in milliseconds.
Arrivals == {500, 1500}
\* A raw record: its bid and ask in points, and the time it arrived at, from which
\* the feed fills the fields time (seconds) and time_msc (milliseconds).
RawRecords ==
    [bid : {Unparsable} \cup (0..MaxQuotePrice),
     ask : {Unparsable, 0, MaxQuotePrice},
     at : Arrivals \cup {Unparsable}]

\* The entry get_history appends for a record it accepts.
HistoryTick(sym, ret, bid, ask, tms) ==
    [symbol |-> sym, price |-> Round(ret.mid2, 2), bid |-> bid, ask |-> ask,
     volume_synthetic |-> Round(ret.vol, VolUnit \div 100), side |-> ret.side,
     timestamp |-> tms, source |-> "mt5_history"]

\* The for loop with result.insert(0, ...) in place of result.append(...).
RECURSIVE ReplayPrepend(_, _, _, _, _, _)
ReplayPrepend(raw, c, sym, has_msc, d, result) ==
    IF raw = <<>> THEN result
    ELSE LET t == Head(raw)
         IN IF t.bid = Unparsable \/ t.ask = Unparsable \/ t.at = Unparsable
            THEN ReplayPrepend(Tail(raw), c, sym, has_msc, d, result)
            ELSE LET ts == t.at \div 1000
                     tms == IF has_msc THEN t.at ELSE ts * 1000
                 IN IF t.bid > 0 /\ t.ask > 0
                    THEN LET r == calc(c, sym, t.bid, t.ask, d)
                         IN ReplayPrepend(Tail(raw), r.vc, sym, has_msc, d,
                                <<HistoryTick(sym, r.ret, t.bid, t.ask, tms)>> \o result)
                    ELSE ReplayPrepend(Tail(raw), c, sym, has_msc, d, result)

\* The for loop without its inner try: a record that raises reaches the outer
\* handler, which returns [].
RECURSIVE ReplayAbortOnBad(_, _, _, _, _, _)
ReplayAbortOnBad(raw, c, sym, has_msc, d, result) ==
    IF raw = <<>> THEN result
    ELSE LET t == Head(raw)
         IN IF t.bid = Unparsable \/ t.ask = Unparsable \/ t.at = Unparsable
            THEN <<>>
            ELSE LET ts == t.at \div 1000
                     tms == IF has_msc THEN t.at ELSE ts * 1000
                 IN IF t.bid > 0 /\ t.ask > 0
                    THEN LET r == calc(c, sym, t.bid, t.ask, d)
                         IN ReplayAbortOnBad(Tail(raw), r.vc, sym, has_msc, d,
                                Append(result, HistoryTick(sym, r.ret, t.bid, t.ask, tms)))
                    ELSE ReplayAbortOnBad(Tail(raw), c, sym, has_msc, d, result)

\* The for loop of get_history over the batch raw, with the calculator c it made
\* for this call: float(t['bid']), float(t['ask']) or int(t['time']) raising is
\* caught and the record passed over; int(t['time_msc']) raising (the batch has no
\* such field) falls back to ts * 1000; a record with bid <= 0 or ask <= 0 is
\* passed over; every other record goes through calc and is appended.
RECURSIVE Replay(_, _, _, _, _, _)
Replay(raw, c, sym, has_msc, d, result) ==
    IF raw = <<>> THEN result
    ELSE LET t == Head(raw)
         IN IF t.bid = Unparsable \/ t.ask = Unparsable \/ t.at = Unparsable
            THEN Replay(Tail(raw), c, sym, has_msc, d, result)
            ELSE LET ts == t.at \div 1000
                     tms == IF has_msc THEN t.at ELSE ts * 1000
                 IN IF t.bid > 0 /\ t.ask > 0
                    THEN LET r == calc(c, sym, t.bid, t.ask, d)
                         IN Replay(Tail(raw), r.vc, sym, has_msc, d,
                                Append(result, HistoryTick(sym, r.ret, t.bid, t.ask, tms)))
                    ELSE Replay(Tail(raw), c, sym, has_msc, d, result)

\* What copy_ticks_range and copy_ticks_from can do.
FetchResults == {"rows", "empty", "raises"}

\* get_history(sym, hours) of a connector, given what the feed source does: the
\* list it returns.
get_history(connected, selectable, ranged, fallback, raw, sym, has_msc, d) ==
    IF ~connected THEN <<>>
    ELSE IF ~selectable THEN <<>>
    ELSE IF ranged = "raises" THEN <<>>
    ELSE LET raw1 == IF ranged = "rows" THEN raw ELSE <<>>
         IN IF raw1 # <<>> THEN Replay(raw1, NewVC, sym, has_msc, d, <<>>)
            ELSE IF fallback = "raises" THEN <<>>
            ELSE LET raw2 == IF fallback = "rows" THEN raw ELSE <<>>
                 IN IF raw2 = <<>> THEN <<>>
                    ELSE Replay(raw2, NewVC, sym, has_msc, d, <<>>)

(***************************************************************************)
(* WebSocketManager.disconnect and the list it works on.                   *)
(***************************************************************************)
ToSet(s) == {s[k] : k \in 1..Len(s)}

RECURSIVE Disconnect(_, _)
Disconnect(conns, ws) ==
    IF conns = <<>> THEN <<>>
    ELSE IF Head(conns) = ws THEN Tail(conns)
    ELSE <<Head(conns)>> \o Disconnect(Tail(conns), ws)

\* WebSocketManager.connect(ws): await ws.accept(), which returns or raises, then
\* self.connections.append(ws).
connect(conns, ws, accepted) ==
    IF accepted THEN Append(conns, ws) ELSE conns

\* A removal loop that stops after the first bad connection.
RemoveBadFirstOnly(conns, bad) ==
    IF bad = <<>> THEN conns ELSE Disconnect(conns, Head(bad))

\* for conn in bad: self.disconnect(conn)
RECURSIVE RemoveBad(_, _)
RemoveBad(conns, bad) ==
    IF bad = <<>> THEN conns
    ELSE RemoveBad(Disconnect(conns, Head(bad)), Tail(bad))

(***************************************************************************)
(* A broadcast in progress.  it: how many elements the list iterator has   *)
(* yielded; cur: the connection whose send_json is awaited; bad: the local *)
(* list.  start, got, left, touched record what happened to it: the list   *)
(* when it began, the deliveries made, the connections removed from the    *)
(* list meanwhile, and whether anything else changed the list.             *)
(***************************************************************************)
NoFrame ==
    [it |-> 0, cur |-> 0, bad |-> <<>>, src |-> "none", sym |-> "none",
     start |-> <<>>, got |-> <<>>, left |-> {}, touched |-> FALSE]

InitSim == [pc |-> "new", cancel |-> FALSE, fr |-> NoFrame]

\* No listen loop observed, no get_history call made.
NoListen == [pc |-> "none", sym |-> "", last_time |-> 0, tick_count |-> 0,
             seen |-> -1, ticked |-> FALSE, good |-> [bid |-> 0, ask |-> 0],
             dropped |-> FALSE]
NoHistory == [called |-> FALSE, raw |-> <<>>, fetched |-> FALSE, out |-> <<>>]
\* Nothing delivered, no tick emitted yet for the active symbol.
NoneSince == [fresh |-> TRUE, stale |-> [c \in Clients |-> 0], had |-> FALSE]

Init ==
    /\ phase = "init"
    /\ mode = "simulation"
    /\ symbol = "EURUSD"
    /\ mt5 = 0
    /\ mt5_task = 0
    /\ ads = <<>>
    /\ feedUp = FALSE
    /\ connections = <<>>
    /\ sock = [c \in Clients |-> "new"]
    /\ sim = InitSim
    /\ ev = NoEv
    /\ vc = NewVC
    /\ lst = NoListen
    /\ hist = NoHistory
    /\ since = NoneSince

(***************************************************************************)
(* The manager's live-feed state as one value, so that stop_mt5 and        *)
(* start_mt5 compose the way the handlers call them.                       *)
(***************************************************************************)
Mgr ==
    [mode |-> mode, symbol |-> symbol, mt5 |-> mt5, mt5_task |-> mt5_task,
     ads |-> ads, feedUp |-> feedUp]

SetMgr(m) ==
    /\ mode' = m.mode
    /\ symbol' = m.symbol
    /\ mt5' = m.mt5
    /\ mt5_task' = m.mt5_task
    /\ ads' = m.ads
    /\ feedUp' = m.feedUp

\* A task that has not finished: Task.cancel() on it requests cancellation.
Pending(pc) == pc \in {"created", "sleep", "backoff", "send"}
\* The listen loop is alive (created, polling, backing off or broadcasting).
Polling(ad) == Pending(ad.pc)

\* An adapter whose poll loop can still poll the feed source: it is connected and
\* its listen task is alive with no cancellation pending.
CanPoll(ad) == ad.connected /\ Polling(ad) /\ ~ad.cancel

\* MT5Connector.shutdown on the adapter m.mt5.
ConnectorShutdown(m) ==
    IF m.ads[m.mt5].connected
    THEN [m EXCEPT !.ads[m.mt5].connected = FALSE, !.feedUp = FALSE]
    ELSE m

\* stop_mt5 dropping the handle without calling shutdown() on the adapter.
StopMt5NoShutdown(m) ==
    LET m1 == IF m.mt5 # 0
              THEN [m EXCEPT !.ads[m.mt5].stopped = TRUE, !.mt5 = 0]
              ELSE m
        t  == m1.mt5_task
        m2 == IF t # 0
              THEN [m1 EXCEPT !.ads[t].cancel = @ \/ Pending(m1.ads[t].pc),
                              !.mt5_task = 0]
              ELSE m1
    IN [m2 EXCEPT !.mode = "simulation"]

\* stop_mt5 without its last line, self.mode = "simulation".
StopMt5KeepsMode(m) ==
    LET m1 == IF m.mt5 # 0
              THEN [ConnectorShutdown(m) EXCEPT !.ads[m.mt5].stopped = TRUE, !.mt5 = 0]
              ELSE m
        t  == m1.mt5_task
    IN IF t # 0
       THEN [m1 EXCEPT !.ads[t].cancel = @ \/ Pending(m1.ads[t].pc), !.mt5_task = 0]
       ELSE m1

\* WebSocketManager.stop_mt5.
StopMt5(m) ==
    LET m1 == IF m.mt5 # 0
              THEN [ConnectorShutdown(m) EXCEPT !.ads[m.mt5].stopped = TRUE, !.mt5 = 0]
              ELSE m
        t  == m1.mt5_task
        m2 == IF t # 0
              THEN [m1 EXCEPT !.ads[t].cancel = @ \/ Pending(m1.ads[t].pc),
                              !.mt5_task = 0]
              ELSE m1
    IN [m2 EXCEPT !.mode = "simulation"]

\* A fresh MT5Connector whose init() returned ok, and the task start_mt5 creates for it.
\* pc is where its listen task stands: "none" (no task), "created" (not yet run),
\* "sleep" (sleep(0.05)), "backoff" (sleep(1) after an error), "send" (in broadcast),
\* "refused" (returned: symbol_select failed), "exited" (the loop ended),
\* "cancelled".  cancel: Task.cancel() was called and not yet delivered.  by, inited
\* and stopped record who created it, what init() returned and that stop_mt5 ran on it.
\* vc is the VolumeCalculator its __init__ makes.
NewAdapter(sym, ok, by) ==
    [connected |-> ok, pc |-> IF ok THEN "created" ELSE "none", cancel |-> FALSE,
     fr |-> NoFrame, sym |-> sym, by |-> by, inited |-> ok, stopped |-> FALSE,
     vc |-> NewVC]

\* start_mt5 marking the attempt and never falling back when init() fails.
StartMt5NoFallback(m, sym, ok, by) ==
    LET a  == Len(m.ads) + 1
        m1 == [m EXCEPT !.symbol = Upper(sym),
                        !.ads = Append(@, NewAdapter(sym, ok, by)),
                        !.mt5 = a,
                        !.mode = "connecting"]
    IN IF ok
       THEN [m1 EXCEPT !.mode = "mt5", !.mt5_task = a, !.feedUp = TRUE]
       ELSE m1

\* WebSocketManager.start_mt5(sym), with ok the result of MT5Connector.init().
StartMt5(m, sym, ok, by) ==
    LET a  == Len(m.ads) + 1
        m1 == [m EXCEPT !.symbol = Upper(sym),
                        !.ads = Append(@, NewAdapter(sym, ok, by)),
                        !.mt5 = a]
    IN IF ok
       THEN [m1 EXCEPT !.mode = "mt5", !.mt5_task = a, !.feedUp = TRUE]
       ELSE [m1 EXCEPT !.mode = "simulation"]

(***************************************************************************)
(* lifespan: the code before the yield creates the simulate task, which    *)
(* runs its first cycle with no subscriber and sleeps, and the start_mt5   *)
(* task, which runs before any request is served.                          *)
(***************************************************************************)
Startup(ok) ==
    /\ phase = "init"
    /\ phase' = "running"
    /\ sim' = [sim EXCEPT !.pc = "sleep"]
    /\ SetMgr(StartMt5(Mgr, "EURUSD", ok, "startup"))
    /\ ev' = [kind |-> "start", success |-> ok]
    /\ UNCHANGED <<connections, sock>>
    /\ UNCHANGED synthVars

(***************************************************************************)
(* Bookkeeping for broadcasts in progress when something else changes the  *)
(* connection list.                                                        *)
(***************************************************************************)
Touch(fr, before, after) ==
    IF fr.cur # 0 /\ before # after
    THEN [fr EXCEPT !.touched = TRUE, !.left = @ \cup (ToSet(before) \ ToSet(after))]
    ELSE fr

TouchSim(before, after) == [sim EXCEPT !.fr = Touch(@, before, after)]
TouchAds(as, before, after) ==
    [a \in DOMAIN as |-> [as[a] EXCEPT !.fr = Touch(@, before, after)]]

(***************************************************************************)
(* Request handlers.  None of them suspends: start_mt5 has no await that   *)
(* yields, so each runs as one step.                                       *)
(***************************************************************************)
\* switch_symbol restarting the live adapter whatever the mode.
SwitchSymbolAlways(m, raw, ok) ==
    LET m0 == [m EXCEPT !.symbol = Upper(raw)]
        m1 == StartMt5(StopMt5(m0), m0.symbol, ok, "switch")
    IN [m |-> m1, success |-> ok, mode |-> m1.mode, symbol |-> m1.symbol]

\* switch_symbol(raw): the manager after it, and the response.
SwitchSymbolM(m, raw, ok) ==
    LET m0 == [m EXCEPT !.symbol = Upper(raw)]
    IN IF m0.mode = "mt5"
       THEN LET m1 == StartMt5(StopMt5(m0), m0.symbol, ok, "switch")
            IN [m |-> m1, success |-> ok, mode |-> m1.mode, symbol |-> m1.symbol]
       ELSE [m |-> m0, success |-> TRUE, mode |-> "simulation", symbol |-> m0.symbol]

SwitchSymbol(raw, ok) ==
    /\ phase = "running"
    /\ mode = "mt5" => Len(ads) < MaxAdapters
    /\ mode # "mt5" => ok      \* init() is not called then: its result is no input
    /\ LET r == SwitchSymbolM(Mgr, raw, ok)
       IN /\ SetMgr(r.m)
          /\ ev' = [kind |-> "switch", arg |-> raw, pre |-> mode,
                    success |-> r.success, mode |-> r.mode, symbol |-> r.symbol]
    /\ vc' = reset(vc, Upper(raw))
    /\ since' = [NoneSince EXCEPT !.had = Upper(raw) \in DOMAIN vc.initialized]
    /\ UNCHANGED <<phase, connections, sock, sim, lst, hist>>

\* reconnect()
ReconnectM(m, ok) ==
    LET m0 == IF m.mt5 # 0 THEN StopMt5(m) ELSE m
        m1 == StartMt5(m0, m0.symbol, ok, "reconnect")
    IN [m |-> m1, success |-> ok, mode |-> m1.mode]

Reconnect(ok) ==
    /\ phase = "running"
    /\ Len(ads) < MaxAdapters
    /\ LET r == ReconnectM(Mgr, ok)
       IN /\ SetMgr(r.m)
          /\ ev' = [kind |-> "reconnect", pre |-> mode, success |-> r.success, mode |-> r.mode]
    /\ UNCHANGED <<phase, connections, sock, sim>>
    /\ UNCHANGED synthVars

\* lifespan after the yield: manager.stop_mt5(); manager.sim_task.cancel()
Shutdown ==
    /\ phase = "running"
    /\ phase' = "shutdown"
    /\ SetMgr(StopMt5(Mgr))
    /\ sim' = [sim EXCEPT !.cancel = @ \/ Pending(sim.pc)]
    /\ ev' = [kind |-> "shutdown"]
    /\ UNCHANGED <<connections, sock>>
    /\ UNCHANGED synthVars

(***************************************************************************)
(* Clients.  ws_ep registers the socket; a client may stop reading (its    *)
(* sends no longer complete) or close (its sends raise); ws_ep then sees   *)
(* WebSocketDisconnect and calls manager.disconnect.                       *)
(***************************************************************************)
ClientConnect(c) ==
    /\ phase = "running"
    /\ sock[c] = "new"
    /\ sock' = [sock EXCEPT ![c] = "open"]
    /\ connections' = connect(connections, c, TRUE)
    /\ sim' = TouchSim(connections, connections')
    /\ ads' = TouchAds(ads, connections, connections')
    /\ ev' = [kind |-> "connect", ws |-> c]
    /\ UNCHANGED <<phase, mode, symbol, mt5, mt5_task, feedUp>>
    /\ UNCHANGED synthVars

ClientStall(c) ==
    /\ sock[c] = "open"
    /\ sock' = [sock EXCEPT ![c] = "stalled"]
    /\ ev' = NoEv
    /\ UNCHANGED <<phase, mode, symbol, mt5, mt5_task, ads, feedUp, connections, sim>>
    /\ UNCHANGED synthVars

ClientClose(c) ==
    /\ sock[c] \in {"open", "stalled"}
    /\ sock' = [sock EXCEPT ![c] = "closed"]
    /\ ev' = NoEv
    /\ UNCHANGED <<phase, mode, symbol, mt5, mt5_task, ads, feedUp, connections, sim>>
    /\ UNCHANGED synthVars

WsDisconnect(c) ==
    /\ sock[c] = "closed"
    /\ sock' = [sock EXCEPT ![c] = "gone"]
    /\ connections' = Disconnect(connections, c)
    /\ sim' = TouchSim(connections, connections')
    /\ ads' = TouchAds(ads, connections, connections')
    /\ ev' = [kind |-> "disconnect", ws |-> c]
    /\ UNCHANGED <<phase, mode, symbol, mt5, mt5_task, feedUp>>
    /\ UNCHANGED synthVars

(***************************************************************************)
(* WebSocketManager.broadcast, one step per suspension in send_json.       *)
(***************************************************************************)
\* Entering the for loop over self.connections with bad = [].
BeginBroadcast(conns, src, sym) ==
    IF conns = <<>>
    THEN NoFrame
    ELSE [it |-> 1, cur |-> conns[1], bad |-> <<>>, src |-> src, sym |-> sym,
          start |-> conns, got |-> <<>>, left |-> {}, touched |-> FALSE]

\* The awaited send_json ended: "ok" (returned), "fail" (raised) or "cancelled"
\* (CancelledError was thrown into it); the bare except takes the last two.
Sent(fr, outcome) ==
    IF outcome = "ok"
    THEN [fr EXCEPT !.got = Append(@, fr.cur)]
    ELSE [fr EXCEPT !.bad = Append(@, fr.cur)]

\* The list iterator's next(): the element at its index in the list as it is now.
HasNext(fr, conns) == fr.it < Len(conns)
Advance(fr, conns) == [fr EXCEPT !.cur = conns[fr.it + 1], !.it = fr.it + 1]

\* One step of a broadcast: the frame and the list after it, and whether it returned.
SendStep(fr, conns, outcome) ==
    LET f1 == Sent(fr, outcome)
    IN IF HasNext(f1, conns)
       THEN [fr |-> Advance(f1, conns), conns |-> conns, fin |-> FALSE, was |-> f1]
       ELSE [fr |-> NoFrame, conns |-> RemoveBad(conns, f1.bad), fin |-> TRUE, was |-> f1]

\* How the transport answers a send to c; a stalled client's send does not end.
CanEnd(c) == sock[c] # "stalled"
SendOutcome(c) == IF sock[c] = "open" THEN "ok" ELSE "fail"

\* A delivery of a tick whose symbol is no longer the active one is counted.
Count2(n) == IF n < 2 THEN n + 1 ELSE n
Tally(s, fr, outcome) ==
    IF outcome = "ok" /\ fr.sym # symbol
    THEN [s EXCEPT !.stale[fr.cur] = Count2(@)]
    ELSE s

SendEv(t, fr, outcome, r) ==
    [kind |-> "send", task |-> t, src |-> fr.src, sym |-> fr.sym, to |-> fr.cur,
     outcome |-> outcome, fin |-> r.fin, start |-> r.was.start, bad |-> r.was.bad,
     got |-> r.was.got, left |-> r.was.left, touched |-> r.was.touched,
     after |-> r.conns]

EmitEv(t, src, sym) == [kind |-> "emit", task |-> t, src |-> src, sym |-> sym]

(***************************************************************************)
(* WebSocketManager.simulate.  Its suspension points are the two sleeps    *)
(* (pc "sleep") and the send_json inside broadcast (pc "send").            *)
(***************************************************************************)
\* simulate without the mode check at the top of its cycle.
SimWakeUngated ==
    /\ sim.pc = "sleep"
    /\ ~sim.cancel
    /\ LET f == BeginBroadcast(connections, "simulation", symbol)
       IN /\ sim' = [sim EXCEPT !.fr = f, !.pc = IF f.cur = 0 THEN "sleep" ELSE "send"]
          /\ ev' = EmitEv(0, "simulation", symbol)
    /\ UNCHANGED <<phase, mode, symbol, mt5, mt5_task, ads, feedUp, connections, sock>>
    /\ UNCHANGED synthVars

SimWake ==
    /\ sim.pc = "sleep"
    /\ ~sim.cancel
    /\ IF mode # "simulation"
       THEN /\ UNCHANGED sim
            /\ ev' = NoEv
       ELSE LET f == BeginBroadcast(connections, "simulation", symbol)
            IN /\ sim' = [sim EXCEPT !.fr = f, !.pc = IF f.cur = 0 THEN "sleep" ELSE "send"]
                          /\ ev' = EmitEv(0, "simulation", symbol)
    /\ UNCHANGED <<phase, mode, symbol, mt5, mt5_task, ads, feedUp, connections, sock>>
    /\ UNCHANGED synthVars

\* A broadcast step of the simulate task ending with `outcome`.
SimBroadcastStep(outcome) ==
    LET r == SendStep(sim.fr, connections, outcome)
    IN /\ connections' = r.conns
       /\ sim' = [sim EXCEPT !.fr = r.fr, !.pc = IF r.fin THEN "sleep" ELSE "send",
                             !.cancel = FALSE]
       /\ ads' = TouchAds(ads, connections, r.conns)
       /\ ev' = SendEv(0, sim.fr, outcome, r)
       /\ since' = Tally(since, sim.fr, outcome)

SimSend ==
    /\ sim.pc = "send"
    /\ ~sim.cancel
    /\ CanEnd(sim.fr.cur)
    /\ SimBroadcastStep(SendOutcome(sim.fr.cur))
    /\ UNCHANGED <<phase, mode, symbol, mt5, mt5_task, feedUp, sock>>
    /\ UNCHANGED quoteVars

\* CancelledError thrown at the await the task is suspended in: a sleep inside the
\* try ends the loop (except asyncio.CancelledError: break); a send_json inside
\* broadcast is caught by broadcast's bare except.
SimCancel ==
    /\ sim.cancel
    /\ Pending(sim.pc)
    /\ IF sim.pc = "send"
       THEN SimBroadcastStep("cancelled")
       ELSE /\ sim' = [sim EXCEPT !.pc = "done", !.cancel = FALSE]
            /\ ev' = NoEv
            /\ UNCHANGED <<connections, ads, since>>
    /\ UNCHANGED <<phase, mode, symbol, mt5, mt5_task, feedUp, sock>>
    /\ UNCHANGED quoteVars

(***************************************************************************)
(* MT5Connector.listen of adapter a.  q is what the poll iteration meets:  *)
(* "tick" (a new quote with positive prices), "none" (no quote, an         *)
(* unchanged or a discarded one) or "error" (an exception).                *)
(***************************************************************************)
PollResults == {"tick", "none", "error"}

\* A pass whose exception is not caught: it ends the task.
LiveIterErrorEnds(a, q) ==
    IF q = "tick"
    THEN LET f == BeginBroadcast(connections, "mt5", ads[a].sym)
         IN /\ ads' = [ads EXCEPT ![a].fr = f,
                                  ![a].pc = IF f.cur = 0 THEN "sleep" ELSE "send"]
            /\ ev' = EmitEv(a, "mt5", ads[a].sym)
    ELSE /\ ads' = [ads EXCEPT ![a].pc = IF q = "none" THEN "sleep" ELSE "exited"]
         /\ ev' = NoEv

\* One pass of the while body up to its next suspension.
LiveIter(a, q) ==
    IF q = "tick"
    THEN LET f == BeginBroadcast(connections, "mt5", ads[a].sym)
         IN /\ ads' = [ads EXCEPT ![a].fr = f,
                                  ![a].pc = IF f.cur = 0 THEN "sleep" ELSE "send"]
            /\ ev' = EmitEv(a, "mt5", ads[a].sym)
    ELSE /\ ads' = [ads EXCEPT ![a].pc = IF q = "none" THEN "sleep" ELSE "backoff"]
         /\ ev' = NoEv

\* The task's first run: the connected check, symbol_select, then the loop.
LiveRun(a, sel, q) ==
    /\ a \in DOMAIN ads
    /\ ads[a].pc = "created"
    /\ ~ads[a].cancel
    /\ IF ~ads[a].connected
       THEN ads' = [ads EXCEPT ![a].pc = "exited"] /\ ev' = NoEv
       ELSE IF ~sel
       THEN ads' = [ads EXCEPT ![a].pc = "refused"] /\ ev' = NoEv
       ELSE LiveIter(a, q)
    /\ UNCHANGED <<phase, mode, symbol, mt5, mt5_task, feedUp, connections, sock, sim>>
    /\ UNCHANGED synthVars

\* Waking from sleep(0.05) or from the backoff sleep(1): while self.connected.
LiveWake(a, q) ==
    /\ a \in DOMAIN ads
    /\ ads[a].pc \in {"sleep", "backoff"}
    /\ ~ads[a].cancel
    /\ IF ~ads[a].connected
       THEN ads' = [ads EXCEPT ![a].pc = "exited"] /\ ev' = NoEv
       ELSE LiveIter(a, q)
    /\ UNCHANGED <<phase, mode, symbol, mt5, mt5_task, feedUp, connections, sock, sim>>
    /\ UNCHANGED synthVars

LiveBroadcastStep(a, outcome) ==
    LET r == SendStep(ads[a].fr, connections, outcome)
    IN /\ connections' = r.conns
       /\ ads' = [TouchAds(ads, connections, r.conns) EXCEPT
                     ![a].fr = r.fr, ![a].pc = IF r.fin THEN "sleep" ELSE "send",
                     ![a].cancel = FALSE]
       /\ sim' = TouchSim(connections, r.conns)
       /\ ev' = SendEv(a, ads[a].fr, outcome, r)
       /\ since' = Tally(since, ads[a].fr, outcome)

LiveSend(a) ==
    /\ a \in DOMAIN ads
    /\ ads[a].pc = "send"
    /\ ~ads[a].cancel
    /\ CanEnd(ads[a].fr.cur)
    /\ LiveBroadcastStep(a, SendOutcome(ads[a].fr.cur))
    /\ UNCHANGED <<phase, mode, symbol, mt5, mt5_task, feedUp, sock>>
    /\ UNCHANGED quoteVars

\* CancelledError thrown into the listen task: not an Exception, so a sleep lets it
\* end the task; a send_json inside broadcast is caught by broadcast's bare except.
LiveCancel(a) ==
    /\ a \in DOMAIN ads
    /\ ads[a].cancel
    /\ Pending(ads[a].pc)
    /\ IF ads[a].pc = "send"
       THEN LiveBroadcastStep(a, "cancelled")
       ELSE /\ ads' = [ads EXCEPT ![a].pc = "cancelled", ![a].cancel = FALSE]
            /\ ev' = NoEv
            /\ UNCHANGED <<connections, sim, since>>
    /\ UNCHANGED <<phase, mode, symbol, mt5, mt5_task, feedUp, sock>>
    /\ UNCHANGED quoteVars

SimStep == SimWake \/ SimSend \/ SimCancel
LiveStep(a) ==
    \/ \E sel \in BOOLEAN, q \in PollResults : LiveRun(a, sel, q)
    \/ \E q \in PollResults : LiveWake(a, q)
    \/ LiveSend(a)
    \/ LiveCancel(a)

Next ==
    \/ \E ok \in BOOLEAN : Startup(ok)
    \/ \E raw \in RawSymbols, ok \in BOOLEAN : SwitchSymbol(raw, ok)
    \/ \E ok \in BOOLEAN : Reconnect(ok)
    \/ Shutdown
    \/ \E c \in Clients : ClientConnect(c)
    \/ \E c \in Clients : ClientStall(c)
    \/ \E c \in Clients : ClientClose(c)
    \/ \E c \in Clients : WsDisconnect(c)
    \/ SimWake
    \/ SimSend
    \/ SimCancel
    \/ \E a \in AdapterIds, sel \in BOOLEAN, q \in PollResults : LiveRun(a, sel, q)
    \/ \E a \in AdapterIds, q \in PollResults : LiveWake(a, q)
    \/ \E a \in AdapterIds : LiveSend(a)
    \/ \E a \in AdapterIds : LiveCancel(a)

Spec == Init /\ [][Next]_vars

\* The event loop runs every task that is ready: a task step that stays enabled is taken.
FairSpec ==
    /\ Spec
    /\ WF_vars(SimStep)
    /\ \A a \in AdapterIds : WF_vars(LiveStep(a))

(***************************************************************************)
(* CalcSpec: one VolumeCalculator under any sequence of the calls made on  *)
(* it: a producer synthesizing a tick (calc, then TickData, as simulate    *)
(* does; listen and get_history build theirs the same way) and reset.      *)
(***************************************************************************)
\* mid, vol, pc, side = self.vc.calc(s, bid, ask); td = TickData(...)
Synthesize(sym, bid, ask) ==
    \E d \in DrawsFor(vc, sym, bid) :
        LET r == calc(vc, sym, bid, ask, d)
        IN /\ vc' = r.vc
           /\ ev' = [kind |-> "calc", sym |-> sym, bid |-> bid, first |-> r.first,
                     last_bid |-> IF r.first THEN 0 ELSE vc.last_bid[sym],
                     burst |-> d.b # 10, ret |-> r.ret,
                     tick |-> TickData(sym, r.ret, bid, ask, "simulation")]
           /\ UNCHANGED <<taskVars, since, lst, hist>>

\* vc.reset(sym), vc.reset()
ResetArgs == Symbols \cup {None}
ResetCall(sym) ==
    /\ vc' = reset(vc, sym)
    /\ ev' = [kind |-> "reset", sym |-> sym, was |-> vc]
    /\ UNCHANGED <<taskVars, since, lst, hist>>

CalcNext ==
    \/ \E sym \in Symbols, bid \in Prices, ask \in Prices : Synthesize(sym, bid, ask)
    \/ \E sym \in ResetArgs : ResetCall(sym)

CalcSpec == Init /\ [][CalcNext]_vars

(***************************************************************************)
(* ListenSpec: the poll loop of one MT5Connector at the level of quotes.   *)
(* One step is one pass of the while body, from mt5.symbol_info_tick to    *)
(* the sleep; vc is the connector's own calculator.  lst.seen (the time of *)
(* the quote the previous poll returned, -1 before any), lst.ticked (the   *)
(* previous pass emitted a tick), lst.good (bid and ask of the last quote  *)
(* a tick was emitted for) and lst.dropped (a quote was discarded since)   *)
(* only record what happened.                                              *)
(***************************************************************************)
\* What mt5.symbol_info_tick returns: None, or a quote with its time, bid and ask.
NoQuote == [time |-> -1, bid |-> 0, ask |-> 0]
Quotes == [time : 0..MaxTime, bid : 0..MaxQuotePrice, ask : 0..MaxQuotePrice]
PollResult == Quotes \cup {NoQuote}
\* Where a pass raises, if it does: in the poll, or in on_tick.
Faults == {"no", "poll", "deliver"}
\* The draws of the calc call of a pass, the volume factors held at one value.
ListenDraws == [w : {100}, j : {100}, b : {10}, coin : Coins]
ListenDrawsFor(c, sym, q) ==
    IF q.bid > 0 /\ q.ask > 0 /\ DrawsFor(c, sym, q.bid) # DrawsMove
    THEN ListenDraws
    ELSE {d \in ListenDraws : d.coin = "buy"}

\* A pass that never stores the time of the quote it took.
ListenIterStaleTime(l, c, q, d) ==
    IF q # NoQuote /\ q.time # l.last_time
    THEN LET l1 == [l EXCEPT !.tick_count = @ + 1]
         IN IF q.bid > 0 /\ q.ask > 0
            THEN LET r == calc(c, l.sym, q.bid, q.ask, d)
                 IN [lst |-> l1, vc |-> r.vc, emitted |-> TRUE,
                     tick |-> TickData(l.sym, r.ret, q.bid, q.ask, "mt5")]
            ELSE [lst |-> l1, vc |-> c, emitted |-> FALSE, tick |-> NoQuote]
    ELSE [lst |-> l, vc |-> c, emitted |-> FALSE, tick |-> NoQuote]

\* A pass that runs calc on every fresh quote and emits when the prices are positive.
ListenIterCalcDiscarded(l, c, q, d) ==
    IF q # NoQuote /\ q.time # l.last_time
    THEN LET l1 == [l EXCEPT !.last_time = q.time, !.tick_count = @ + 1]
             r == calc(c, l.sym, q.bid, q.ask, d)
         IN IF q.bid > 0 /\ q.ask > 0
            THEN [lst |-> l1, vc |-> r.vc, emitted |-> TRUE,
                  tick |-> TickData(l.sym, r.ret, q.bid, q.ask, "mt5")]
            ELSE [lst |-> l1, vc |-> r.vc, emitted |-> FALSE, tick |-> NoQuote]
    ELSE [lst |-> l, vc |-> c, emitted |-> FALSE, tick |-> NoQuote]

\* The body of the while loop on the quote q: the loop's variables and the
\* calculator after it, and the tick handed to on_tick, if any.
ListenIter(l, c, q, d) ==
    IF q # NoQuote /\ q.time # l.last_time
    THEN LET l1 == [l EXCEPT !.last_time = q.time, !.tick_count = @ + 1]
         IN IF q.bid > 0 /\ q.ask > 0
            THEN LET r == calc(c, l.sym, q.bid, q.ask, d)
                 IN [lst |-> l1, vc |-> r.vc, emitted |-> TRUE,
                     tick |-> TickData(l.sym, r.ret, q.bid, q.ask, "mt5")]
            ELSE [lst |-> l1, vc |-> c, emitted |-> FALSE, tick |-> NoQuote]
    ELSE [lst |-> l, vc |-> c, emitted |-> FALSE, tick |-> NoQuote]

\* listen(sym) is started on a connected adapter and symbol_select accepts sym.
ListenStart(sym) ==
    /\ lst.pc = "none"
    /\ lst' = [lst EXCEPT !.pc = "listening", !.sym = sym]
    /\ ev' = [kind |-> "listen", sym |-> sym]
    /\ UNCHANGED <<taskVars, since, vc, hist>>

\* One pass on the quote q, raising at `fault`.
Poll(q, fault) ==
    /\ lst.pc = "listening"
    /\ fault = "poll" => q = NoQuote
    /\ \E d \in ListenDrawsFor(vc, lst.sym, q) :
          LET r == IF fault = "poll"
                   THEN [lst |-> lst, vc |-> vc, emitted |-> FALSE, tick |-> NoQuote]
                   ELSE ListenIter(lst, vc, q, d)
          IN /\ fault = "deliver" => r.emitted
             /\ r.lst.tick_count <= MaxTicks
             /\ lst' = [r.lst EXCEPT !.seen = IF q = NoQuote THEN @ ELSE q.time,
                                     !.ticked = r.emitted,
                                     !.good = IF r.emitted
                                              THEN [bid |-> q.bid, ask |-> q.ask]
                                              ELSE @,
                                     !.dropped = IF r.emitted THEN FALSE
                                                 ELSE @ \/ (r.lst.tick_count # lst.tick_count)]
             /\ vc' = r.vc
             /\ ev' = [kind |-> "poll", polled |-> q # NoQuote, time |-> q.time,
                       valid |-> q.bid > 0 /\ q.ask > 0, fault |-> fault,
                       seen |-> lst.seen, ticked |-> lst.ticked, good |-> lst.good,
                       dropped |-> lst.dropped,
                       bid |-> q.bid, ask |-> q.ask,
                       emitted |-> r.emitted, tick |-> r.tick]
    /\ UNCHANGED <<taskVars, since, hist>>

\* stop_mt5: shutdown() clears connected and the task is cancelled; the loop ends.
ListenStop ==
    /\ lst.pc = "listening"
    /\ lst' = [lst EXCEPT !.pc = "ended"]
    /\ ev' = [kind |-> "stop"]
    /\ UNCHANGED <<taskVars, since, vc, hist>>

ListenNext ==
    \/ \E sym \in Symbols : ListenStart(sym)
    \/ \E q \in PollResult, fault \in Faults : Poll(q, fault)
    \/ ListenStop

ListenSpec == Init /\ [][ListenNext]_vars

(***************************************************************************)
(* get_history calls on the batches the feed source holds.                 *)
(***************************************************************************)
\* What a call meets: the connector's connected flag, symbol_select's answer, the
\* two fetches, whether the batch has a time_msc field, and calc's tie coin.  What
\* the call never looks at is held fixed.
HistoryCalls ==
    {h \in [connected : BOOLEAN, selectable : BOOLEAN, ranged : FetchResults,
            fallback : FetchResults, has_msc : BOOLEAN, coin : Coins] :
        /\ ~h.connected => h.selectable
        /\ ~(h.connected /\ h.selectable) => h.ranged = "raises"
        /\ h.ranged = "raises" => h.fallback = "raises"
        /\ (h.ranged # "rows" /\ h.fallback # "rows") => (h.has_msc /\ h.coin = "buy")}

\* The call replays a batch: it got as far as the for loop.
Replayed(h, raw) ==
    /\ h.connected
    /\ h.selectable
    /\ raw # <<>>
    /\ h.ranged = "rows" \/ (h.ranged = "empty" /\ h.fallback = "rows")

\* The feed source records one more quote in the window.
FeedRecord(t) ==
    /\ ~hist.called
    /\ Len(hist.raw) < MaxBatch
    /\ hist' = [hist EXCEPT !.raw = Append(@, t)]
    /\ ev' = [kind |-> "feed"]
    /\ UNCHANGED <<taskVars, since, vc, lst>>

\* manager.mt5.get_history(symbol.upper(), hours) as the /history handler calls it.
GetHistory(sym, h) ==
    /\ ~hist.called
    /\ LET d == [w |-> 100, j |-> 100, b |-> 10, coin |-> h.coin]
           ticks == get_history(h.connected, h.selectable, h.ranged, h.fallback,
                                hist.raw, sym, h.has_msc, d)
       IN /\ hist' = [hist EXCEPT !.called = TRUE,
                                  !.fetched = Replayed(h, hist.raw),
                                  !.out = ticks]
          /\ ev' = [kind |-> "history", sym |-> sym, has_msc |-> h.has_msc,
                    count |-> Len(ticks)]
    /\ UNCHANGED <<taskVars, since, vc, lst>>

\* The handler has sent its response; the window moves on.
HistoryReturn ==
    /\ hist.called
    /\ hist' = NoHistory
    /\ ev' = NoEv
    /\ UNCHANGED <<taskVars, since, vc, lst>>

HistSymbols == {"EURUSD"}

HistNext ==
    \/ \E t \in RawRecords : FeedRecord(t)
    \/ \E sym \in HistSymbols, h \in HistoryCalls : GetHistory(sym, h)
    \/ HistoryReturn

HistSpec == Init /\ [][HistNext]_vars

(***************************************************************************)
(* DiscardSpec: a run of the poll loop, or history conversions.  The loop  *)
(* works on its connector's calculator and a conversion on one of its own, *)
(* so the two are followed one at a time.                                  *)
(***************************************************************************)
DiscardNext ==
    \/ hist = NoHistory /\ ListenNext
    \/ lst = NoListen /\ HistNext

DiscardSpec == Init /\ [][DiscardNext]_vars

(***************************************************************************)
(* RegSpec: connect and disconnect as functions of the subscriber list,    *)
(* called with any handle, registered or not.                              *)
(***************************************************************************)
Subscribe(ws, accepted) ==
    /\ Len(connections) < MaxRegistered
    /\ connections' = connect(connections, ws, accepted)
    /\ ev' = [kind |-> "subscribe", ws |-> ws, accepted |-> accepted, was |-> connections]
    /\ UNCHANGED <<phase, mode, symbol, mt5, mt5_task, ads, feedUp, sock, sim>>
    /\ UNCHANGED synthVars

Unsubscribe(ws) ==
    /\ connections' = Disconnect(connections, ws)
    /\ ev' = [kind |-> "unsubscribe", ws |-> ws, was |-> connections]
    /\ UNCHANGED <<phase, mode, symbol, mt5, mt5_task, ads, feedUp, sock, sim>>
    /\ UNCHANGED synthVars

RegNext ==
    \/ \E ws \in Clients, accepted \in BOOLEAN : Subscribe(ws, accepted)
    \/ \E ws \in Clients : Unsubscribe(ws)

RegSpec == Init /\ [][RegNext]_vars

(***************************************************************************)
(* LookupSpec: gcfg called on symbol strings in every mix of letter cases. *)
(***************************************************************************)
lowerChar(ch) ==
    IF \E i \in DOMAIN UpperCase : UpperCase[i] = ch
    THEN LowerCase[CHOOSE i \in DOMAIN UpperCase : UpperCase[i] = ch]
    ELSE ch

\* Every way of writing s with each of its letters in either case.
RECURSIVE CaseVariants(_)
CaseVariants(s) ==
    IF s = <<>> THEN {<<>>}
    ELSE {<<ch>> \o t : ch \in {Head(s), lowerChar(Head(s)), upperChar(Head(s))},
                        t \in CaseVariants(Tail(s))}

\* The strings gcfg is called on: the registry's names and, not in the registry, the
\* empty string, a part of a name and a name with one more character, all in every
\* mix of cases.
SymbolTexts ==
    UNION {CaseVariants(Spelling[n]) : n \in DOMAIN SYM_CFG}
    \cup CaseVariants(<<>>)
    \cup CaseVariants(<<"U", "S", "D">>)
    \cup CaseVariants(<<"X", "A", "U", "1">>)
    \cup CaseVariants(<<"Z", "z">>)

Lookup(s) ==
    /\ ev' = [kind |-> "lookup", arg |-> s, cfg |-> lookup(s)]
    /\ UNCHANGED <<taskVars, synthVars>>

LookupNext == \E s \in SymbolTexts : Lookup(s)

LookupSpec == Init /\ [][LookupNext]_vars

(***************************************************************************)
(* TickSpec: the manager at the level of quotes.  The handlers of Spec     *)
(* (start-up, switch_symbol, reconnect, a client registering) with one     *)
(* step per tick a producer synthesizes (simulate on manager.vc, the       *)
(* listen loop of a connector on its own vc) and the /history handler.     *)
(* The delivery of a tick is followed in Spec.                             *)
(***************************************************************************)
\* Bid and ask of the quotes the producers see here.
TickPrices == 1..MaxQuotePrice
\* The draws of a tick's calc call, the volume factors held at one value.
TickDraws == {d \in ListenDraws : d.coin = "buy"}

TickEv(src, sym, r, bid, ask) ==
    [kind |-> "tick", src |-> src, sym |-> sym, first |-> r.first,
     fresh |-> since.fresh /\ sym = symbol, had |-> since.had,
     tick |-> TickData(sym, r.ret, bid, ask, src)]

\* A tick for the active symbol has been emitted.
Emitted(s, sym) == IF sym = symbol THEN [s EXCEPT !.fresh = FALSE] ELSE s

\* One pass of simulate's loop up to the TickData it builds: the mode test,
\* s = self.symbol, the random walk's next price (bid, with the ask a spread above
\* it: one point here), self.vc.calc(s, bid, ask).
SimTick(bid) ==
    /\ phase = "running"
    /\ Pending(sim.pc)
    /\ mode = "simulation"
    /\ \E d \in TickDraws :
          LET ask == bid + 1
              r == calc(vc, symbol, bid, ask, d)
          IN /\ vc' = r.vc
             /\ ev' = TickEv("simulation", symbol, r, bid, ask)
    /\ since' = Emitted(since, symbol)
    /\ UNCHANGED <<taskVars, lst, hist>>

\* One pass of the listen loop of adapter a that takes a new valid quote:
\* self.vc.calc(self.symbol, tick.bid, tick.ask) on the connector's calculator.
LiveTick(a, bid, ask) ==
    /\ phase = "running"
    /\ a \in DOMAIN ads
    /\ CanPoll(ads[a])
    /\ \E d \in TickDraws :
          LET r == calc(ads[a].vc, ads[a].sym, bid, ask, d)
          IN /\ ads' = [ads EXCEPT ![a].vc = r.vc]
             /\ ev' = TickEv("mt5", ads[a].sym, r, bid, ask)
    /\ since' = Emitted(since, ads[a].sym)
    /\ UNCHANGED <<phase, mode, symbol, mt5, mt5_task, feedUp, connections, sock, sim>>
    /\ UNCHANGED quoteVars

\* The calculator the for loop of get_history has made its calc calls on, when it
\* started from c.
RECURSIVE ReplayEnd(_, _, _)
ReplayEnd(raw, c, sym) ==
    IF raw = <<>> THEN c
    ELSE LET t == Head(raw)
         IN IF t.bid = Unparsable \/ t.ask = Unparsable \/ t.at = Unparsable
            THEN ReplayEnd(Tail(raw), c, sym)
            ELSE IF t.bid > 0 /\ t.ask > 0
                 THEN ReplayEnd(Tail(raw), Remember(c, sym, t.bid, t.bid + t.ask), sym)
                 ELSE ReplayEnd(Tail(raw), c, sym)

\* get_history replaying on the connector's calculator self.vc.
HistoryVcShared(self_vc, h, raw, sym) ==
    IF Replayed(h, raw) THEN ReplayEnd(raw, self_vc, sym) ELSE self_vc

\* self.vc of the connector after get_history: the loop calls calc on the
\* VolumeCalculator made for the call (vc = VolumeCalculator()), never on self.vc.
HistoryVc(self_vc, h, raw, sym) == self_vc

\* The batches the feed source holds when the handler is called.
HandlerRecords ==
    {t \in RawRecords : t.ask = MaxQuotePrice /\ t.at = 500 /\ t.bid \in {0, MaxQuotePrice}}
HandlerBatches ==
    {<<>>} \cup {<<t>> : t \in HandlerRecords}
           \cup {<<t, u>> : t \in HandlerRecords, u \in HandlerRecords}
\* What a call made by the handler meets (the handler has tested connected itself).
HandlerCalls ==
    {h \in HistoryCalls : h.connected /\ h.has_msc /\ h.coin = "buy"
                          /\ (h.ranged = "rows" => h.fallback = "raises")}

\* GET /history/{symbol}: the response (its hours field echoes the request and is
\* left out).
HistoryResponse(m, raw_sym, h, raw) ==
    IF m.mt5 = 0 \/ ~m.ads[m.mt5].connected
    THEN [error |-> "MT5 nao conectado", ticks |-> <<>>, count |-> 0]
    ELSE LET d == [w |-> 100, j |-> 100, b |-> 10, coin |-> h.coin]
             ticks == get_history(TRUE, h.selectable, h.ranged, h.fallback,
                                  raw, Upper(raw_sym), h.has_msc, d)
         IN [symbol |-> Upper(raw_sym), count |-> Len(ticks), ticks |-> ticks]

\* GET /history/{symbol} served.  ev records whether a live feed was connected
\* and whether symbol_select accepted the symbol.
HistoryRequest(raw_sym, h, raw) ==
    /\ phase = "running"
    /\ LET live == mt5 # 0 /\ ads[mt5].connected
           fetches == /\ live
                      /\ h.selectable
                      /\ h.ranged = "rows" \/ (h.ranged = "empty" /\ h.fallback = "rows")
       IN /\ ~live => (h.selectable /\ h.ranged = "raises")
          /\ ~fetches => raw = <<>>    \* the batch is no input then
          /\ ads' = IF live
                    THEN [ads EXCEPT ![mt5].vc = HistoryVc(@, h, raw, Upper(raw_sym))]
                    ELSE ads
          /\ ev' = [kind |-> "history", arg |-> raw_sym, live |-> live,
                    selectable |-> h.selectable, pre |-> mode,
                    replayed |-> live /\ Replayed(h, raw),
                    resp |-> HistoryResponse(Mgr, raw_sym, h, raw)]
    /\ UNCHANGED <<phase, mode, symbol, mt5, mt5_task, feedUp, connections, sock, sim>>
    /\ UNCHANGED synthVars

TickNext ==
    \/ \E ok \in BOOLEAN : Startup(ok)
    \/ \E raw \in RawSymbols, ok \in BOOLEAN : SwitchSymbol(raw, ok)
    \/ \E ok \in BOOLEAN : Reconnect(ok)
    \/ \E c \in Clients : ClientConnect(c)
    \/ \E bid \in TickPrices : SimTick(bid)
    \/ \E a \in AdapterIds, bid \in TickPrices, ask \in TickPrices : LiveTick(a, bid, ask)
    \/ \E raw_sym \in RawSymbols, h \in HandlerCalls, raw \in HandlerBatches :
          HistoryRequest(raw_sym, h, raw)

TickSpec == Init /\ [][TickNext]_vars

(***************************************************************************)
(* Properties.                                                             *)
(***************************************************************************)
Count(seq, c) == Cardinality({k \in 1..Len(seq) : seq[k] = c})

\* A broadcast has just returned.
BroadcastReturned == ev.kind = "send" /\ ev.fin
\* A tick has just been delivered to a subscriber.
Delivered == ev.kind = "send" /\ ev.outcome = "ok"

\* C1: start_live ends with mode=Live only when the adapter connected and its listen
\* loop is polling; when the connect step or the listen step (symbol_select) failed
\* for the current adapter, the mode is Simulated.
C1_StartFailureDegrades ==
    \A a \in DOMAIN ads :
        (mt5 = a /\ (~ads[a].inited \/ ads[a].pc = "refused")) => mode = "simulation"

\* C2: before shutdown some producer is able to emit ticks: mode=Simulated with the
\* simulation loop running, or mode=Live with a connected adapter whose poll loop runs.
C2_ProducerAvailable ==
    phase = "running" =>
        \/ mode = "simulation" /\ Pending(sim.pc)
        \/ mode = "mt5" /\ \E a \in DOMAIN ads : ads[a].connected /\ Polling(ads[a])

\* C3: no tick with source=live is delivered to a subscriber by an adapter whose stop
\* has returned.
C3_NoLiveTickAfterStop ==
    (Delivered /\ ev.src = "mt5") => ~ads[ev.task].stopped

\* C4: when a broadcast returns, every subscriber that was registered when it began,
\* stayed registered throughout and whose send did not fail was delivered the tick
\* exactly once.
C4_DeliversExactlyOnce ==
    BroadcastReturned =>
        \A c \in ToSet(ev.start) \ ev.left :
            (sock[c] = "open" /\ c \notin ToSet(ev.bad)) => Count(ev.got, c) = 1

\* C5: a broadcast to N subscribers of which K failed delivery, with no other change
\* of the subscriber list meanwhile, leaves exactly the N-K subscribers it delivered
\* to registered, in their order.
C5_BroadcastPrunes ==
    (BroadcastReturned /\ ~ev.touched) =>
        /\ Len(ev.after) = Len(ev.start) - Len(ev.bad)
        /\ ev.after = SelectSeq(ev.start, LAMBDA c : c \notin ToSet(ev.bad))
        /\ ToSet(ev.after) = ToSet(ev.got)

C5_Witness ==
    /\ BroadcastReturned
    /\ ~ev.touched
    /\ Len(ev.start) = 2
    /\ Len(ev.bad) = 1
    /\ Len(ev.after) = 1

\* C6: while the simulate task's broadcast is suspended in a send to a subscriber
\* that does not read, every other subscriber still waiting for the tick eventually
\* receives it (or leaves), and the broadcast eventually returns to the producer.
WaitingBehind(c) ==
    /\ sim.pc = "send"
    /\ sim.fr.cur # c
    /\ c \in ToSet(sim.fr.start) \ sim.fr.left
    /\ c \notin ToSet(sim.fr.got) \cup ToSet(sim.fr.bad)
    /\ c \in ToSet(connections)
    /\ sock[c] = "open"

C6_SlowSubscriberIsolated ==
    /\ \A c \in Clients :
          (WaitingBehind(c) /\ sock[sim.fr.cur] = "stalled") ~>
              \/ (Delivered /\ ev.task = 0 /\ ev.to = c)
              \/ c \notin ToSet(connections)
              \/ sock[c] # "open"
    /\ (sim.pc = "send") ~> (sim.pc # "send")

\* C7: switch_symbol(S) while mode=Live: when the start of the new adapter failed,
\* at its connect step or at its listen step, the mode is Simulated and the response
\* said success=false; the response's symbol is S.
C7_SwitchFailureDegrades ==
    /\ (ev.kind = "switch" /\ ev.pre = "mt5" /\ ~ev.success) =>
           /\ mode = "simulation"
           /\ ev.mode = "simulation"
           /\ symbol = Upper(ev.arg)
           /\ ev.symbol = Upper(ev.arg)
    /\ \A a \in DOMAIN ads :
           (mt5 = a /\ ads[a].by = "switch" /\ ads[a].pc = "refused") =>
               (mode = "simulation" /\ ~ads[a].inited)

C9_ModeDefined ==
    /\ mode \in {"mt5", "simulation"}
    /\ ev.kind \in {"switch", "reconnect"} => ev.mode \in {"mt5", "simulation"}

C9_Witness ==
    /\ ev.kind \in {"switch", "reconnect"}
    /\ ev.pre = "mt5"
    /\ ~ev.success
    /\ mode = "simulation"

\* C10: after the shutdown signal every producer task eventually terminates and the
\* feed connection is released, when every subscriber's send ends.
NoProducerLeft ==
    /\ sim.pc = "done"
    /\ \A a \in DOMAIN ads : ~Polling(ads[a])
    /\ ~feedUp

C10_ShutdownTerminates ==
    \/ <>(\E c \in Clients : sock[c] = "stalled")
    \/ (phase = "shutdown") ~> NoProducerLeft

\* What a calculator stores for a symbol (-1: no entry).
Stored(c, s) ==
    <<IF s \in DOMAIN c.last_bid THEN c.last_bid[s] ELSE -1,
      IF s \in DOMAIN c.last_mid THEN c.last_mid[s] ELSE -1,
      s \in DOMAIN c.initialized>>

\* C15: every synthesized tick, the first tick for a symbol and the first after a
\* reset included, has synthetic_volume >= the symbol's base_volume.
C15_VolumeAtLeastBase ==
    ev.kind = "calc" => ev.tick.volume_synthetic >= gcfg(ev.sym).bv * 100

\* C15 as amended: a synthesized tick has synthetic_volume >= base_volume unless it
\* is the first observation of its symbol (the first ever or the first after a
\* reset), and then it has synthetic_volume >= 0.8 x base_volume.
C15_VolumeAtLeastBaseAfterWarmup ==
    ev.kind = "calc" =>
        IF ev.first
        THEN ev.tick.volume_synthetic >= gcfg(ev.sym).bv * 80
        ELSE ev.tick.volume_synthetic >= gcfg(ev.sym).bv * 100

C15_Witness ==
    /\ ev.kind = "calc"
    /\ ~ev.first
    /\ ev.ret.price_change2 # 0
    /\ ev.tick.volume_synthetic = gcfg(ev.sym).bv * 100

\* C16: a calc call on a symbol already observed returns a volume >= the symbol's
\* base_volume, for every jitter factor and with or without the burst multiplier.
C16_VolumeFloorAfterWarmup ==
    (ev.kind = "calc" /\ ~ev.first) =>
        /\ ev.ret.vol >= BaseVol(gcfg(ev.sym))
        /\ ev.burst => ev.ret.vol >= 3 * BaseVol(gcfg(ev.sym))

C16_Witness ==
    /\ ev.kind = "calc"
    /\ ~ev.first
    /\ ev.burst
    /\ ev.sym = "XAUUSD"
    /\ ev.ret.vol = 3 * BaseVol(gcfg("XAUUSD"))

\* C17: a calc call on a symbol already observed returns side buy when the bid is
\* higher than the stored bid and sell when it is lower, whatever the change of the
\* mid price.
C17_SideFollowsBid ==
    (ev.kind = "calc" /\ ~ev.first) =>
        /\ ev.bid > ev.last_bid => ev.ret.side = "buy"
        /\ ev.bid < ev.last_bid => ev.ret.side = "sell"

C17_Witness ==
    /\ ev.kind = "calc"
    /\ ~ev.first
    /\ ev.bid > ev.last_bid
    /\ ev.ret.price_change2 < 0
    /\ ev.ret.side = "buy"

\* C18: reset(S) drops what is stored for S and leaves what is stored for every other
\* symbol; reset without a symbol drops everything; a calc on a symbol with nothing
\* stored is a first observation: price_change = 0 and a volume in base_volume x
\* [0.8, 1.2), and it stores the bid and mid it was given.
C18_ResetIsFirstObservation ==
    /\ (ev.kind = "reset" /\ ev.sym \in Symbols) =>
           /\ Stored(vc, ev.sym) = <<-1, -1, FALSE>>
           /\ \A s \in Symbols \ {ev.sym} : Stored(vc, s) = Stored(ev.was, s)
    /\ (ev.kind = "reset" /\ ev.sym = None) => vc = NewVC
    /\ (ev.kind = "calc" /\ ev.first) =>
           /\ ev.ret.price_change2 = 0
           /\ ev.ret.vol >= (8 * BaseVol(gcfg(ev.sym))) \div 10
           /\ ev.ret.vol < (12 * BaseVol(gcfg(ev.sym))) \div 10
           /\ Stored(vc, ev.sym) = <<ev.bid, ev.ret.mid2, TRUE>>

\* C12: the live poll loop emits a tick for a poll only when the polled quote's
\* time differs from the time of the quote the previous poll returned and both bid
\* and ask are positive; a poll returning the same time as the previous one emits
\* nothing.
C12_EmitsOnlyFreshValidQuotes ==
    ev.kind = "poll" =>
        /\ ev.emitted => (ev.polled /\ ev.time # ev.seen /\ ev.valid)
        /\ (ev.polled /\ ev.time = ev.seen) => ~ev.emitted

C12_Witness ==
    /\ ev.kind = "poll"
    /\ ev.ticked
    /\ ev.polled
    /\ ev.time = ev.seen
    /\ ev.valid
    /\ ~ev.emitted
    /\ lst.tick_count = 2

\* C11: an error raised in a pass of the live poll loop never ends the loop: the
\* loop backs off and, unless it was stopped meanwhile, is ready to poll again; the
\* loop has ended only if stop_mt5 was called on its adapter.
C11_ErrorNeverEndsLoop ==
    \A a \in DOMAIN ads :
        /\ ads[a].pc \in {"exited", "cancelled"} => ads[a].stopped
        /\ (ads[a].pc = "backoff" /\ ~ads[a].stopped) =>
               ENABLED (\E q \in PollResults : LiveWake(a, q))

C11_Witness ==
    \E a \in DOMAIN ads :
        /\ ads[a].pc = "backoff"
        /\ ~ads[a].stopped
        /\ mt5 = a
        /\ mode = "mt5"
        /\ connections # <<>>

C14_SimulatorResumes ==
    <>[](mode = "simulation" /\ phase = "running") =>
        []<>(ev.kind = "emit" /\ ev.src = "simulation" /\ ev.sym = symbol)

\* A raw record get_history accepts: every field parses, bid and ask are positive.
ValidRecord(t) ==
    /\ t.bid # Unparsable /\ t.ask # Unparsable /\ t.at # Unparsable
    /\ t.bid > 0 /\ t.ask > 0

ValidRecords(raw) == SelectSeq(raw, ValidRecord)

NonDecreasing(s) == \A i, j \in 1..Len(s) : i <= j => s[i] <= s[j]

\* The output timestamp of a record: its time_msc, or its time in seconds x 1000
\* when the batch has no time_msc field.
Stamp(t, has_msc) == IF has_msc THEN t.at ELSE (t.at \div 1000) * 1000

\* C19: get_history replays the batch in arrival order: the i-th output tick comes
\* from the i-th valid record of the batch as far as the output goes, so whenever
\* the arrival times of the valid records are non-decreasing, so are the output
\* timestamps.
C19_HistoryKeepsOrder ==
    (ev.kind = "history" /\ hist.fetched) =>
        LET valid == ValidRecords(hist.raw)
        IN /\ Len(hist.out) <= Len(valid)
           /\ \A i \in 1..Len(hist.out) :
                  /\ hist.out[i].bid = valid[i].bid
                  /\ hist.out[i].ask = valid[i].ask
                  /\ hist.out[i].timestamp = Stamp(valid[i], ev.has_msc)
           /\ NonDecreasing([i \in 1..Len(valid) |-> valid[i].at]) =>
                  NonDecreasing([i \in 1..Len(hist.out) |-> hist.out[i].timestamp])

C19_Witness ==
    /\ ev.kind = "history"
    /\ hist.fetched
    /\ Len(hist.raw) = MaxBatch
    /\ Len(hist.out) = 2
    /\ ~ValidRecord(hist.raw[2])
    /\ hist.out[1].timestamp < hist.out[2].timestamp

\* C20: get_history never fails outright: whatever the batch holds, a call that
\* replays it returns exactly one tick per valid record (unparsable records and
\* records with non-positive bid or ask are passed over, those after them are
\* still converted), and a call that replays nothing returns the empty list.
C20_OneTickPerValidRecord ==
    ev.kind = "history" =>
        /\ hist.fetched => Len(hist.out) = Len(ValidRecords(hist.raw))
        /\ ~hist.fetched => hist.out = <<>>
        /\ \A i \in 1..Len(hist.out) : hist.out[i].source = "mt5_history"

C20_Witness ==
    /\ ev.kind = "history"
    /\ hist.fetched
    /\ Len(hist.raw) = MaxBatch
    /\ hist.raw[1].bid = Unparsable
    /\ hist.raw[2].ask = 0
    /\ ValidRecord(hist.raw[3])
    /\ Len(hist.out) = 1


\* C27: at most one live adapter is connected, and it is the one the manager holds;
\* once switch_symbol or reconnect has started a new adapter, every earlier adapter
\* is disconnected and its poll loop cannot poll the feed source again.
C27_SingleLiveAdapter ==
    /\ Cardinality({a \in DOMAIN ads : ads[a].connected}) <= 1
    /\ \A a \in DOMAIN ads : ads[a].connected => mt5 = a
    /\ \A a \in DOMAIN ads : a < Len(ads) => (~ads[a].connected /\ ~CanPoll(ads[a]))
    /\ \A a \in DOMAIN ads :
           (a < Len(ads) /\ Polling(ads[a])) =>
               ~ENABLED (\E q \in PollResults : LiveWake(a, q) /\ ads'[a].pc # "exited")

C27_Witness ==
    /\ Len(ads) = MaxAdapters
    /\ ads[MaxAdapters].connected
    /\ ads[MaxAdapters].pc = "created"
    /\ ads[1].inited
    /\ ads[1].pc = "sleep"
    /\ ev.kind \in {"switch", "reconnect"}

\* C28: a subscriber leaves the registry only by its own disconnect or because a
\* delivery to it failed: a subscriber whose transport is healthy is never removed,
\* in particular not when a producer task is cancelled while suspended in a send
\* to it.
C28_OnlyFailedOrLeavingRemoved ==
    [][\A c \in ToSet(connections) \ ToSet(connections') : sock'[c] # "open"]_vars

\* C29: mode=Live implies that the manager holds an adapter and that adapter is
\* connected; after stop_mt5 (shutdown) and after every start that reported
\* failure, the mode is Simulated and no adapter is connected.
C29_LiveImpliesConnected ==
    /\ mode = "mt5" => (mt5 # 0 /\ ads[mt5].connected /\ feedUp)
    /\ (ev.kind \in {"start", "switch", "reconnect"} /\ ~ev.success) =>
           (mode = "simulation" /\ \A a \in DOMAIN ads : ~ads[a].connected)
    /\ ev.kind = "shutdown" =>
           (mode = "simulation" /\ mt5 = 0 /\ \A a \in DOMAIN ads : ~ads[a].connected)

C29_Witness ==
    /\ ev.kind = "reconnect"
    /\ ev.pre = "mt5"
    /\ ~ev.success
    /\ mt5 # 0
    /\ \E a \in DOMAIN ads : ads[a].stopped /\ ads[a].inited

\* C23: connect on a handle that is already registered leaves it registered once,
\* so that a broadcast delivers to it once; disconnect on a handle that is not
\* registered leaves the subscriber list as it was.
C23_SubscribeIdempotent ==
    /\ (ev.kind = "subscribe" /\ Count(ev.was, ev.ws) = 1) =>
           Count(connections, ev.ws) = 1
    /\ (ev.kind = "unsubscribe" /\ ev.ws \notin ToSet(ev.was)) =>
           connections = ev.was

\* C24: gcfg returns a profile for every symbol string, the same profile for every
\* letter-case variant of the string, the registry's profile for a name of the
\* registry, and the default profile (mult 1000, bv 5, dig 5) for every string that
\* is in no letter case a name of the registry.
C24_LookupTotalCaseInsensitive ==
    ev.kind = "lookup" =>
        /\ ev.cfg \in {SYM_CFG[n] : n \in DOMAIN SYM_CFG} \cup {DefaultCfg}
        /\ \A v \in CaseVariants(ev.arg) : lookup(v) = ev.cfg
        /\ \A n \in DOMAIN SYM_CFG : Spelling[n] \in CaseVariants(ev.arg) => ev.cfg = SYM_CFG[n]
        /\ (\A n \in DOMAIN SYM_CFG : Spelling[n] \notin CaseVariants(ev.arg)) =>
               ev.cfg = [mult |-> 1000, bv |-> 5, dig |-> 5]

C24_Witness ==
    /\ ev.kind = "lookup"
    /\ ev.arg = <<"x", "A", "u", "U", "s", "d">>
    /\ ev.cfg.mult = 50

\* The side calc gives a quote with bid b after a quote with bid b0 (any on a tie).
SideAfter(b0, b) == IF b > b0 THEN {"buy"} ELSE IF b < b0 THEN {"sell"} ELSE Coins

\* C30: a quote discarded for a non-positive bid or ask leaves the calculator as it
\* was, in the poll loop and in a history batch: the tick of the next valid quote
\* has its price_change and side computed against the last quote a tick was made
\* for, whatever was discarded in between.
C30_DiscardLeavesState ==
    /\ (ev.kind = "poll" /\ ev.emitted /\ ev.good.bid > 0) =>
           /\ ev.tick.price_change =
                  Round((ev.bid + ev.ask) - (ev.good.bid + ev.good.ask), 2)
           /\ ev.tick.side \in SideAfter(ev.good.bid, ev.bid)
    /\ (ev.kind = "poll" /\ ev.polled /\ ~ev.valid) =>
           /\ ~ev.emitted
           /\ lst.good = ev.good
           /\ lst.good.bid > 0 =>
                  Stored(vc, lst.sym) = <<lst.good.bid, lst.good.bid + lst.good.ask, TRUE>>
           /\ lst.good.bid = 0 => Stored(vc, lst.sym) = <<-1, -1, FALSE>>
    /\ (ev.kind = "history" /\ hist.fetched) =>
           LET valid == ValidRecords(hist.raw)
           IN \A i \in 2..Len(hist.out) :
                  hist.out[i].side \in SideAfter(valid[i - 1].bid, valid[i].bid)

C30_Witness ==
    /\ ev.kind = "poll"
    /\ ev.emitted
    /\ ev.dropped
    /\ ev.good.bid > ev.bid
    /\ ev.tick.side = "sell"
    /\ ev.tick.price_change < 0

\* C25: after switch_symbol(S) has returned, a subscriber receives at most one tick
\* whose symbol is not S.
C25_AtMostOneStaleTick ==
    \A c \in Clients : since.stale[c] <= 1

\* A history conversion has just been served.
HistoryServed == ev.kind = "history"

\* C22: a history call for a symbol the feed source refuses, or made while no live
\* feed is connected, returns a response with an error field, no ticks and count 0,
\* and leaves the mode as it was.
C22_HistoryErrorExplicit ==
    (HistoryServed /\ (~ev.live \/ ~ev.selectable)) =>
        /\ "error" \in DOMAIN ev.resp
        /\ ev.resp.ticks = <<>>
        /\ ev.resp.count = 0
        /\ mode = ev.pre

\* C21: a history conversion leaves the calculators of the simulated and of the live
\* producers as they were (price_change and side of a producer's next tick are
\* calc's result on its calculator and the quote, so they are what they would have
\* been without it); mode, active symbol and subscribers are unchanged.
C21_HistoryLeavesProducers ==
    [][ev'.kind = "history" =>
          /\ vc' = vc
          /\ \A a \in DOMAIN ads : ads'[a].vc = ads[a].vc
          /\ \A a \in DOMAIN ads : ads'[a].sym = ads[a].sym
          /\ mode' = mode
          /\ symbol' = symbol
          /\ connections' = connections]_vars

\* A conversion that replayed records for the symbol the live producer has already
\* ticked on, with a subscriber registered.
C21_Witness ==
    /\ HistoryServed
    /\ ev.replayed
    /\ ev.resp.count >= 1
    /\ mode = "mt5"
    /\ ev.resp.symbol = ads[mt5].sym
    /\ ads[mt5].sym \in DOMAIN ads[mt5].vc.initialized
    /\ ev.resp.ticks[1].bid # ads[mt5].vc.last_bid[ads[mt5].sym]
    /\ connections # <<>>

\* C26: the first tick emitted for S after switch_symbol(S) is a first observation
\* with price_change 0, in either mode and whether or not the live restart succeeded.
C26_FirstTickAfterSwitch ==
    (ev.kind = "tick" /\ ev.fresh) => (ev.first /\ ev.tick.price_change = 0)

\* The simulated producer's first tick after a switch to a symbol manager.vc held
\* an observation of when the switch came.
C26_Witness ==
    /\ ev.kind = "tick"
    /\ ev.fresh
    /\ ev.had
    /\ ev.src = "simulation"
    /\ ev.tick.price_change = 0
\* The symbols a calculator holds something for, dict by dict.
KeySets(c) == <<DOMAIN c.last_bid, DOMAIN c.last_mid, DOMAIN c.initialized>>

\* C31: in every state of a calculator the symbols with a stored last_bid, with a
\* stored last_mid and marked initialized are the same set; a symbol enters it only
\* by a calc call for that symbol, and a reset of the symbol (or of everything)
\* takes it out, so a symbol is in it only if calc was called for it since its
\* last reset.
C31_KeySetsAgree ==
    /\ [](/\ DOMAIN vc.last_bid = DOMAIN vc.initialized
          /\ DOMAIN vc.last_mid = DOMAIN vc.initialized)
    /\ [][\A s \in Symbols :
             /\ (s \in DOMAIN vc'.initialized /\ s \notin DOMAIN vc.initialized) =>
                    (ev'.kind = "calc" /\ ev'.sym = s)
             /\ (ev'.kind = "reset" /\ ev'.sym \in {s, None}) =>
                    (/\ s \notin DOMAIN vc'.last_bid
                     /\ s \notin DOMAIN vc'.last_mid
                     /\ s \notin DOMAIN vc'.initialized)]_vars

\* reset(S) has just dropped a symbol calc had stored, another symbol staying.
C31_Witness ==
    /\ ev.kind = "reset"
    /\ ev.sym = "XAUUSD"
    /\ KeySets(ev.was) = <<{"XAUUSD", ""}, {"XAUUSD", ""}, {"XAUUSD", ""}>>
    /\ KeySets(vc) = <<{""}, {""}, {""}>>
====
